---- MODULE Spec2Model ----
(***************************************************************************)
(* Model of find_unclosed_backtick.py: one function that opens a UTF-8     *)
(* text file, reads all of its lines, leaves the with block, and then    *)
(* scans the lines character by character, counting backticks and          *)
(* printing events, per-line warnings, a total and a verdict.              *)
(*                                                                         *)
(* The file on disk is a sequence of bytes.  The text layer decodes it     *)
(* (UTF-8, strict), translates newlines (universal newlines) and           *)
(* readlines() splits the text after every "\n".  Standard output is the   *)
(* sequence of lines written so far, one record per line.                  *)
(***************************************************************************)
EXTENDS Integers, Sequences, FiniteSets, TLC

\* Largest file, in bytes, that the model enumerates.
MaxLen == 4

\* ---- bytes on disk -------------------------------------------------------
B_Backtick == "0x60"
B_Letter   == "0x61"
B_LF       == "0x0A"
B_CR       == "0x0D"
B_Lead     == "0xC3"    \* first byte of a two-byte UTF-8 sequence
B_Cont     == "0xA9"    \* continuation byte

Bytes == {B_Backtick, B_Letter, B_LF, B_CR, B_Lead, B_Cont}

\* ---- characters of the decoded text --------------------------------------
Backtick == "U+0060"
Letter   == "U+0061"
LF       == "U+000A"
CR       == "U+000D"
EAcute   == "U+00E9"    \* the character encoded by 0xC3 0xA9

AllFiles == UNION {[1..n -> Bytes] : n \in 0..MaxLen}

FileStatuses == {"ok", "missing", "unreadable"}

\* ---- the text layer: open(filename, mode r, encoding utf-8) ---------------

\* The bytes are valid UTF-8: every lead byte is followed by a continuation
\* byte and no continuation byte stands alone.
RECURSIVE ValidUtf8(_)
ValidUtf8(bs) ==
    IF bs = <<>> THEN TRUE
    ELSE IF Head(bs) = B_Lead
         THEN Len(bs) >= 2 /\ bs[2] = B_Cont /\ ValidUtf8(Tail(Tail(bs)))
         ELSE Head(bs) # B_Cont /\ ValidUtf8(Tail(bs))

DecodeByte(b) ==
    CASE b = B_Backtick -> Backtick
      [] b = B_Letter   -> Letter
      [] b = B_LF       -> LF
      [] b = B_CR       -> CR

\* Decoding of valid UTF-8: a two-byte sequence becomes one character.
RECURSIVE Decode(_)
Decode(bs) ==
    IF bs = <<>> THEN <<>>
    ELSE IF Head(bs) = B_Lead
         THEN <<EAcute>> \o Decode(Tail(Tail(bs)))
         ELSE <<DecodeByte(Head(bs))>> \o Decode(Tail(bs))

\* Universal newlines (newline=None): "\r\n" and a lone "\r" become "\n".
RECURSIVE TranslateNewlines(_)
TranslateNewlines(text) ==
    IF text = <<>> THEN <<>>
    ELSE IF Head(text) = CR
         THEN IF Len(text) >= 2 /\ text[2] = LF
              THEN <<LF>> \o TranslateNewlines(Tail(Tail(text)))
              ELSE <<LF>> \o TranslateNewlines(Tail(text))
         ELSE <<Head(text)>> \o TranslateNewlines(Tail(text))

\* readlines(): a line ends after each "\n", which it keeps; a last line
\* without terminator is a line too; an empty text has no lines.
RECURSIVE SplitFrom(_, _)
SplitFrom(text, cur) ==
    IF text = <<>>
    THEN IF cur = <<>> THEN <<>> ELSE <<cur>>
    ELSE IF Head(text) = LF
         THEN <<Append(cur, LF)>> \o SplitFrom(Tail(text), <<>>)
         ELSE SplitFrom(Tail(text), Append(cur, Head(text)))

ReadLinesOf(bs) == SplitFrom(TranslateNewlines(Decode(bs)), <<>>)

\* ---- the lines the function prints ---------------------------------------

EventLineZeroBased(line_num, char_pos, total) ==
    [kind |-> "event", line |-> line_num, char |-> char_pos, total |-> total]

\* f"Line {line_num}, char {char_pos + 1}: Found backtick (total: {...})"
EventLine(line_num, char_pos, total) ==
    [kind |-> "event", line |-> line_num, char |-> char_pos + 1, total |-> total]

\* f"*** WARNING: Unclosed backtick detected at end of line {line_num}"
WarningLine(line_num) ==
    [kind |-> "warning", line |-> line_num]

TotalLinesOffByOne(count) ==
    << [kind |-> "blank"], [kind |-> "total", total |-> count + 1] >>

TotalLinesNoBlank(count) ==
    << [kind |-> "total", total |-> count] >>

\* print(f"\nTotal backticks: {backtick_count}") writes two lines: the
\* leading "\n" ends an empty line, then comes the Total line.
TotalLines(count) ==
    << [kind |-> "blank"], [kind |-> "total", total |-> count] >>

VerdictLineSwapped(count) ==
    IF count % 2 = 1 THEN [kind |-> "ok"] ELSE [kind |-> "error"]

\* "ERROR: Odd number of backticks ..." or "OK: Even number of backticks"
VerdictLine(count) ==
    IF count % 2 = 1 THEN [kind |-> "error"] ELSE [kind |-> "ok"]

NextCountDouble(count) == count + 2

\* backtick_count += 1
NextCount(count) == count + 1

UnclosedWhenEven(count) == count % 2 = 0

\* if backtick_count % 2 == 1 (the check at the end of a line)
UnclosedAtLineEnd(count) == count % 2 = 1

\* ---- state ---------------------------------------------------------------
VARIABLES
    fileStatus,      \* what the path names: a readable file, nothing, or a file that cannot be read
    content,         \* the bytes of the file on disk
    fileOpen,        \* the handle f is open
    lines,           \* the local lines
    backtick_count,  \* the local backtick_count
    line_num,        \* the local line_num (0 before the first line)
    char_pos,        \* index the inner enumerate yields next (0-based)
    out,             \* standard output, one record per line
    err,             \* the exception that propagated out of the function
    pc               \* position in the function

vars == <<fileStatus, content, fileOpen, lines, backtick_count, line_num,
          char_pos, out, err, pc>>

Init ==
    /\ fileStatus \in FileStatuses
    /\ content \in (IF fileStatus = "missing" THEN {<<>>} ELSE AllFiles)
    /\ fileOpen = FALSE
    /\ lines = <<>>
    /\ backtick_count = 0
    /\ line_num = 0
    /\ char_pos = 0
    /\ out = <<>>
    /\ err = "none"
    /\ pc = "open"

\* ---- actions -------------------------------------------------------------

OpenCaught ==
    /\ pc = "open"
    /\ IF fileStatus = "ok"
       THEN /\ fileOpen' = TRUE
            /\ pc' = "readlines"
       ELSE /\ fileOpen' = FALSE
            /\ pc' = "init_count"
    /\ UNCHANGED <<fileStatus, content, lines, backtick_count, line_num,
                   char_pos, out, err>>

\* open(filename, mode r, encoding utf-8): raises when the path is missing
\* or unreadable; nothing catches it.
Open ==
    /\ pc = "open"
    /\ IF fileStatus = "ok"
       THEN /\ fileOpen' = TRUE
            /\ pc' = "readlines"
            /\ err' = err
       ELSE /\ fileOpen' = FALSE
            /\ pc' = "error"
            /\ err' = IF fileStatus = "missing"
                      THEN "FileNotFoundError" ELSE "PermissionError"
    /\ UNCHANGED <<fileStatus, content, lines, backtick_count, line_num,
                   char_pos, out>>

\* lines = f.readlines(): decodes the whole file, or raises.
ReadLines ==
    /\ pc = "readlines"
    /\ IF ValidUtf8(content)
       THEN /\ lines' = ReadLinesOf(content)
            /\ pc' = "exit_with"
            /\ err' = err
       ELSE /\ lines' = lines
            /\ pc' = "exit_with_raise"
            /\ err' = "UnicodeDecodeError"
    /\ UNCHANGED <<fileStatus, content, fileOpen, backtick_count, line_num,
                   char_pos, out>>

CloseOnSuccessOnly ==
    /\ pc \in {"exit_with", "exit_with_raise"}
    /\ fileOpen' = (pc = "exit_with_raise")
    /\ pc' = IF pc = "exit_with" THEN "init_count" ELSE "error"
    /\ UNCHANGED <<fileStatus, content, lines, backtick_count, line_num,
                   char_pos, out, err>>

CloseLeak ==
    /\ pc \in {"exit_with", "exit_with_raise"}
    /\ fileOpen' = fileOpen
    /\ pc' = IF pc = "exit_with" THEN "init_count" ELSE "error"
    /\ UNCHANGED <<fileStatus, content, lines, backtick_count, line_num,
                   char_pos, out, err>>

\* Leaving the with block closes f, on normal exit and on an exception,
\* which then goes on propagating.
Close ==
    /\ pc \in {"exit_with", "exit_with_raise"}
    /\ fileOpen' = FALSE
    /\ pc' = IF pc = "exit_with" THEN "init_count" ELSE "error"
    /\ UNCHANGED <<fileStatus, content, lines, backtick_count, line_num,
                   char_pos, out, err>>

\* backtick_count = 0
InitCounter ==
    /\ pc = "init_count"
    /\ backtick_count' = 0
    /\ pc' = "for_line"
    /\ UNCHANGED <<fileStatus, content, fileOpen, lines, line_num, char_pos,
                   out, err>>

NextLineResetting ==
    /\ pc = "for_line"
    /\ IF line_num < Len(lines)
       THEN /\ line_num' = line_num + 1
            /\ char_pos' = 0
            /\ backtick_count' = 0
            /\ pc' = "for_char"
       ELSE /\ pc' = "print_total"
            /\ UNCHANGED <<line_num, char_pos, backtick_count>>
    /\ UNCHANGED <<fileStatus, content, fileOpen, lines, out, err>>

\* for line_num, line in enumerate(lines, 1): the next line, or the end of
\* the loop.
NextLine ==
    /\ pc = "for_line"
    /\ IF line_num < Len(lines)
       THEN /\ line_num' = line_num + 1
            /\ char_pos' = 0
            /\ pc' = "for_char"
       ELSE /\ pc' = "print_total"
            /\ UNCHANGED <<line_num, char_pos>>
    /\ UNCHANGED <<fileStatus, content, fileOpen, lines, backtick_count,
                   out, err>>

\* for char_pos, char in enumerate(line): one character of the line; a
\* backtick is counted and reported.
NextChar ==
    /\ pc = "for_char"
    /\ IF char_pos < Len(lines[line_num])
       THEN /\ char_pos' = char_pos + 1
            /\ pc' = pc
            /\ IF lines[line_num][char_pos + 1] = Backtick
               THEN /\ backtick_count' = NextCount(backtick_count)
                    /\ out' = Append(out, EventLine(line_num, char_pos,
                                                    NextCount(backtick_count)))
               ELSE UNCHANGED <<backtick_count, out>>
       ELSE /\ pc' = "line_end"
            /\ UNCHANGED <<char_pos, backtick_count, out>>
    /\ UNCHANGED <<fileStatus, content, fileOpen, lines, line_num, err>>

\* The check after the inner loop: a warning when the count is odd.
LineEnd ==
    /\ pc = "line_end"
    /\ out' = IF UnclosedAtLineEnd(backtick_count)
              THEN Append(out, WarningLine(line_num))
              ELSE out
    /\ pc' = "for_line"
    /\ UNCHANGED <<fileStatus, content, fileOpen, lines, backtick_count,
                   line_num, char_pos, err>>

\* print(f"\nTotal backticks: {backtick_count}")
PrintTotal ==
    /\ pc = "print_total"
    /\ out' = out \o TotalLines(backtick_count)
    /\ pc' = "print_verdict"
    /\ UNCHANGED <<fileStatus, content, fileOpen, lines, backtick_count,
                   line_num, char_pos, err>>

\* The final if/else.
PrintVerdict ==
    /\ pc = "print_verdict"
    /\ out' = Append(out, VerdictLine(backtick_count))
    /\ pc' = "done"
    /\ UNCHANGED <<fileStatus, content, fileOpen, lines, backtick_count,
                   line_num, char_pos, err>>

Next ==
    \/ Open
    \/ ReadLines
    \/ Close
    \/ InitCounter
    \/ NextLine
    \/ NextChar
    \/ LineEnd
    \/ PrintTotal
    \/ PrintVerdict

Spec == Init /\ [][Next]_vars

\* ---- what the claims speak about -----------------------------------------

\* Number of backtick bytes of the file on disk (0x60 is never part of a
\* multi-byte sequence).
RECURSIVE CountByte(_, _)
CountByte(bs, b) ==
    IF bs = <<>> THEN 0
    ELSE (IF Head(bs) = b THEN 1 ELSE 0) + CountByte(Tail(bs), b)

FileBackticks == CountByte(content, B_Backtick)

\* Number of backtick characters of one line, and of lines 1..i.
BackticksInLine(line) == Cardinality({c \in 1..Len(line) : line[c] = Backtick})

RECURSIVE BackticksUpTo(_, _)
BackticksUpTo(ls, i) ==
    IF i = 0 THEN 0 ELSE BackticksUpTo(ls, i - 1) + BackticksInLine(ls[i])

OutIdx == 1..Len(out)
EventIdx   == {i \in OutIdx : out[i].kind = "event"}
WarningIdx == {i \in OutIdx : out[i].kind = "warning"}
TotalIdx   == {i \in OutIdx : out[i].kind = "total"}
BlankIdx   == {i \in OutIdx : out[i].kind = "blank"}
VerdictIdx == {i \in OutIdx : out[i].kind \in {"ok", "error"}}

\* The events printed so far, in order.
Events == SelectSeq(out, LAMBDA r : r.kind = "event")

\* The scan of the lines has started / is over.
Scanning == pc \in {"for_line", "for_char", "line_end"}
ScanOver == pc \in {"print_total", "print_verdict", "done"}
Terminal == pc \in {"done", "error"}

\* Lines whose inner loop and end-of-line check are both over.
LinesDone == IF pc \in {"for_char", "line_end"} THEN line_num - 1 ELSE line_num

\* The run is bound to fail: the path cannot be opened or the bytes are not
\* valid UTF-8.
WillFail == fileStatus # "ok" \/ ~ValidUtf8(content)

\* C1: a completed run has printed exactly one verdict line, as its last
\* line; it is the OK line iff the file holds an even number of backticks
\* and the ERROR line iff that number is odd.  No verdict is printed before.
C1_Verdict ==
    /\ pc # "done" => VerdictIdx = {}
    /\ pc = "done" =>
          /\ VerdictIdx = {Len(out)}
          /\ (out[Len(out)].kind = "ok")    <=> (FileBackticks % 2 = 0)
          /\ (out[Len(out)].kind = "error") <=> (FileBackticks % 2 = 1)

C1_Witness ==
    /\ pc = "done" /\ FileBackticks = 3 /\ out[Len(out)].kind = "error"

\* C2: once the Total line is printed, its value is the sum of the backtick
\* counts of all lines of the file, and it is the total of the last event
\* printed, or 0 when no event was printed.
C2_Total ==
    pc \in {"print_verdict", "done"} =>
        /\ Cardinality(TotalIdx) = 1
        /\ \A i \in TotalIdx :
              /\ out[i].total = BackticksUpTo(ReadLinesOf(content),
                                              Len(ReadLinesOf(content)))
              /\ out[i].total = FileBackticks
              /\ out[i].total = IF Events = <<>> THEN 0
                                ELSE Events[Len(Events)].total

C2_Witness ==
    /\ pc = "done" /\ Len(Events) = 2 /\ Len(lines) = 2
    /\ \E i \in TotalIdx : out[i].total = 2

\* C3: the k-th event printed carries total k; every event is printed for a
\* backtick character; and when the scan is over there are exactly as many
\* events as the file has backticks.
C3_Events ==
    /\ \A k \in 1..Len(Events) : Events[k].total = k
    /\ \A k \in 1..Len(Events) :
          /\ Events[k].line \in 1..Len(lines)
          /\ Events[k].char \in 1..Len(lines[Events[k].line])
          /\ lines[Events[k].line][Events[k].char] = Backtick
    /\ Len(Events) <= FileBackticks
    /\ ScanOver => Len(Events) = FileBackticks

C3_Witness ==
    /\ ScanOver /\ Len(Events) = 3 /\ Len(content) = 4

\* C4: the counter is 0 when the scan starts, never decreases, and whenever
\* line i has been fully processed it equals the number of backticks of
\* lines 1..i.
C4_Counter ==
    /\ [](/\ backtick_count >= 0
          /\ (pc = "for_line" /\ line_num = 0) => backtick_count = 0
          /\ pc = "line_end" => backtick_count = BackticksUpTo(lines, line_num)
          /\ (pc = "for_line" \/ ScanOver) =>
                backtick_count = BackticksUpTo(lines, LinesDone))
    /\ [][backtick_count' >= backtick_count]_vars

C4_Witness ==
    /\ pc = "line_end" /\ line_num = 2 /\ backtick_count = 2
    /\ BackticksInLine(lines[1]) = 1

\* C5: for every line n that has been processed, a warning naming n is
\* printed iff lines 1..n hold an odd number of backticks; there is at most
\* one warning per line; it comes after the events of line n, before the
\* events of later lines and before the Total line.
C5_Warnings ==
    /\ \A n \in 1..LinesDone :
          (\E w \in WarningIdx : out[w].line = n)
              <=> (BackticksUpTo(lines, n) % 2 = 1)
    /\ \A w \in WarningIdx : out[w].line \in 1..LinesDone
    /\ \A w1, w2 \in WarningIdx : out[w1].line = out[w2].line => w1 = w2
    /\ \A w \in WarningIdx : \A e \in EventIdx :
          /\ out[e].line <= out[w].line => e < w
          /\ out[e].line >  out[w].line => w < e
    /\ \A w \in WarningIdx : \A t \in TotalIdx : w < t

C5_Witness ==
    /\ pc = "done" /\ Len(lines) = 3
    /\ BackticksInLine(lines[1]) = 1 /\ BackticksInLine(lines[2]) = 0
    /\ BackticksInLine(lines[3]) = 1
    /\ {out[w].line : w \in WarningIdx} = {1, 2}

\* C6: every event names the 1-based line and 1-based character position
\* of a backtick, events come in file order (by line, then by position),
\* and when the scan is over every backtick of the file has its event.
C6_Positions ==
    /\ \A e \in EventIdx :
          /\ out[e].line \in 1..Len(lines)
          /\ out[e].char \in 1..Len(lines[out[e].line])
          /\ lines[out[e].line][out[e].char] = Backtick
    /\ \A e1, e2 \in EventIdx :
          e1 < e2 => \/ out[e1].line < out[e2].line
                     \/ /\ out[e1].line = out[e2].line
                        /\ out[e1].char < out[e2].char
    /\ ScanOver =>
          \A n \in 1..Len(lines) : \A c \in 1..Len(lines[n]) :
              lines[n][c] = Backtick =>
                  \E e \in EventIdx : out[e].line = n /\ out[e].char = c
    /\ (Len(content) >= 1 /\ content[1] = B_Backtick /\ Len(out) >= 1)
          => (out[1].kind = "event" /\ out[1].line = 1 /\ out[1].char = 1)

C6_Witness ==
    /\ ScanOver /\ Len(content) = 4
    /\ content[1] = B_Backtick /\ content[2] = B_Lead /\ content[4] = B_Backtick
    /\ Len(Events) = 2 /\ Events[2].line = 1 /\ Events[2].char = 3

\* C7: a run whose path is missing or unreadable, or whose bytes do not
\* decode, never gets to the scan: it ends in the error state with neither
\* a Total line nor a verdict line printed, and for a missing path with no
\* output at all.
C7_Errors ==
    /\ WillFail =>
          /\ pc \in {"open", "readlines", "exit_with_raise", "error"}
          /\ TotalIdx = {} /\ VerdictIdx = {}
    /\ pc = "error" => (WillFail /\ err # "none" /\ TotalIdx = {} /\ VerdictIdx = {})
    /\ fileStatus = "missing" => out = <<>>
    /\ (fileStatus = "missing" /\ pc # "open") =>
          (pc = "error" /\ err = "FileNotFoundError")

C7_Witness ==
    /\ pc = "error" /\ err = "FileNotFoundError" /\ out = <<>>

\* C8 as stated: a completed run has printed one line per backtick, one
\* line per warning and two more lines.
C8_TwoSummaryLines ==
    pc = "done" =>
        Len(out) = FileBackticks + Cardinality(WarningIdx) + 2

\* C8, amended: a completed run has printed one line per backtick, one line
\* per warning (at most one per input line) and three more lines: an empty
\* line, the Total line and the verdict line.
C8_OutputVolume ==
    pc = "done" =>
        /\ Len(out) = FileBackticks + Cardinality(WarningIdx) + 3
        /\ Cardinality(WarningIdx) <= Len(lines)
        /\ Cardinality(BlankIdx) = 1
        /\ Cardinality(TotalIdx) = 1
        /\ Cardinality(VerdictIdx) = 1
        /\ Cardinality(EventIdx) = FileBackticks

C8_Witness ==
    /\ pc = "done" /\ FileBackticks = 1 /\ Cardinality(WarningIdx) = 2
    /\ Len(out) = 6

\* C9 as stated: the file is open while lines and characters are being
\* traversed.
C9_OpenWhileScanning ==
    Scanning => fileOpen

\* C9, amended: the file is open only while it is being read; it is closed
\* when the with block is left, by normal exit or by the exception, before
\* any line is traversed; it is closed in every terminal state; its
\* contents never change.
C9_ScopedRead ==
    /\ [](/\ fileOpen <=> pc \in {"readlines", "exit_with", "exit_with_raise"}
          /\ Terminal => ~fileOpen
          /\ (Scanning \/ ScanOver) => ~fileOpen)
    /\ [][content' = content /\ fileStatus' = fileStatus]_vars

C9_Witness ==
    /\ pc = "error" /\ err = "UnicodeDecodeError" /\ ~fileOpen

\* C10: the file is opened, read, decoded and closed before the first line
\* of output, so a run that ends in a file-access or decoding error has
\* printed nothing, also when backticks come before the invalid bytes.
C10_NoOutputBeforeRead ==
    /\ out # <<>> =>
          /\ ~fileOpen
          /\ err = "none"
          /\ ValidUtf8(content)
          /\ lines = ReadLinesOf(content)
          /\ Scanning \/ ScanOver
    /\ (err # "none" \/ pc \in {"exit_with_raise", "error"}) => out = <<>>

C10_Witness ==
    /\ pc = "error" /\ err = "UnicodeDecodeError" /\ out = <<>>
    /\ Len(content) = 4 /\ content[1] = B_Backtick /\ content[2] = B_LF
    /\ content[4] = B_Cont

====
